---------------------------- MODULE Spec2Model ----------------------------
(***************************************************************************)
(* Resident registry (app/main.py, app/database.py): the form handlers,    *)
(* the ResidenteBase field validators and the five repository functions    *)
(* over the single table `residentes`.                                     *)
(*                                                                         *)
(* A Python str is modelled as a sequence of one-character strings, None   *)
(* / SQL NULL as the value None, a datetime.date as a record               *)
(* [year, month, day].                                                     *)
(***************************************************************************)
EXTENDS Integers, Sequences, FiniteSets, TLC

\* None (and SQL NULL): a value no str equals.
None == <<"<None>">>

(***************************************************************************)
(* Characters and the str methods the validators use.                      *)
(***************************************************************************)
LowerAscii == <<"a","b","c","d","e","f","g","h","i","j","k","l","m",
                "n","o","p","q","r","s","t","u","v","w","x","y","z">>
UpperAscii == <<"A","B","C","D","E","F","G","H","I","J","K","L","M",
                "N","O","P","Q","R","S","T","U","V","W","X","Y","Z">>
LowerAccent == <<"á","é","í","ó","ú","ñ","ü">>
UpperAccent == <<"Á","É","Í","Ó","Ú","Ñ","Ü">>
LowerSeq == LowerAscii \o LowerAccent
UpperSeq == UpperAscii \o UpperAccent

Range(s) == {s[i] : i \in DOMAIN s}
Digits == {"0","1","2","3","4","5","6","7","8","9"}
Whitespace == {" ", "\t", "\n"}
IsLower(c) == c \in Range(LowerSeq)
IsUpper(c) == c \in Range(UpperSeq)
IsCased(c) == IsLower(c) \/ IsUpper(c)

IndexOf(c, s) == CHOOSE i \in DOMAIN s : s[i] = c
ToUpper(c) == IF IsLower(c) THEN UpperSeq[IndexOf(c, LowerSeq)] ELSE c
ToLower(c) == IF IsUpper(c) THEN LowerSeq[IndexOf(c, UpperSeq)] ELSE c

\* str.upper(), str.lower()
upper(v) == [i \in DOMAIN v |-> ToUpper(v[i])]
lower(v) == [i \in DOMAIN v |-> ToLower(v[i])]

\* str.title(): a cased character is upper-cased when the one before it is
\* not cased, and lower-cased otherwise.
title(v) ==
  [i \in DOMAIN v |->
     IF i > 1 /\ IsCased(v[i - 1]) THEN ToLower(v[i]) ELSE ToUpper(v[i])]

\* str.strip(): leading and trailing whitespace removed.
strip(v) ==
  IF \A i \in DOMAIN v : v[i] \in Whitespace THEN <<>>
  ELSE LET lo == CHOOSE i \in DOMAIN v :
                   v[i] \notin Whitespace /\ \A j \in 1..(i - 1) : v[j] \in Whitespace
           hi == CHOOSE i \in DOMAIN v :
                   v[i] \notin Whitespace /\ \A j \in (i + 1)..Len(v) : v[j] \in Whitespace
       IN  SubSeq(v, lo, hi)

\* re.sub(r'[...]', '', v): the characters of `chars` removed.
RemoveChars(v, chars) == SelectSeq(v, LAMBDA c : c \notin chars)

\* re.match(r'^[...]+$', v) on a stripped v: one or more characters, all of
\* the class.
MatchClass(v, class) == Len(v) >= 1 /\ \A i \in DOMAIN v : v[i] \in class

Letters == Range(LowerSeq) \cup Range(UpperSeq)

(***************************************************************************)
(* The outcome of one field's validation: the normalized value, or the     *)
(* message of the ValueError as pydantic reports it in error['msg'].       *)
(***************************************************************************)
Ok(v) == [ok |-> TRUE, value |-> v]
Err(m) == [ok |-> FALSE, msg |-> m]

NOMBRE_MIN == 2
NOMBRE_MAX == 100
PASAPORTE_MIN == 6
PASAPORTE_MAX == 50
TELEFONO_MIN == 7
TELEFONO_MAX == 15
DIRECCION_MAX == 255
OCUPACION_MAX == 100
EDAD_MAX == 150
DIAS_ANIO == 365

validar_nombre_apellido(v) ==
  IF v = <<>> \/ strip(v) = <<>>
  THEN Err("Value error, El campo no puede estar vacío")
  ELSE LET s == strip(v)
       IN  IF Len(s) < NOMBRE_MIN
           THEN Err("Value error, Debe tener al menos 2 caracteres")
           ELSE IF Len(s) > NOMBRE_MAX
           THEN Err("Value error, No puede exceder 100 caracteres")
           ELSE IF ~MatchClass(s, Letters \cup Whitespace)
           THEN Err("Value error, Solo se permiten letras y espacios")
           ELSE Ok(title(s))

validar_pasaporte(v) ==
  IF v = <<>> \/ strip(v) = <<>>
  THEN Err("Value error, El pasaporte es obligatorio")
  ELSE LET s == upper(strip(v))
       IN  IF Len(s) < PASAPORTE_MIN
           THEN Err("Value error, El pasaporte debe tener al menos 6 caracteres")
           ELSE IF Len(s) > PASAPORTE_MAX
           THEN Err("Value error, El pasaporte no puede exceder 50 caracteres")
           ELSE IF ~MatchClass(s, Range(UpperAscii) \cup Digits \cup {"-"})
           THEN Err("Value error, El pasaporte solo puede contener letras, números y guiones")
           ELSE Ok(s)

\* re.match(r'^\+?\d{7,15}$', t)
MatchTelefono(t) ==
  LET d == IF Len(t) >= 1 /\ t[1] = "+" THEN Tail(t) ELSE t
  IN  /\ Len(d) >= TELEFONO_MIN
      /\ Len(d) <= TELEFONO_MAX
      /\ \A i \in DOMAIN d : d[i] \in Digits

validar_telefono(v) ==
  IF v = None \/ strip(v) = <<>>
  THEN Ok(None)
  ELSE LET s == strip(v)
           telefono_limpio == RemoveChars(s, Whitespace \cup {"-", "(", ")"})
       IN  IF ~MatchTelefono(telefono_limpio)
           THEN Err("Value error, Formato de teléfono inválido. Debe contener entre 7 y 15 dígitos")
           ELSE Ok(s)

\* validar_direccion testing only `v is None` before it strips.
validar_direccion_sin_vacio(v) ==
  IF v = None
  THEN Ok(None)
  ELSE LET s == strip(v)
       IN  IF Len(s) > DIRECCION_MAX
           THEN Err("Value error, La dirección no puede exceder 255 caracteres")
           ELSE Ok(s)

validar_direccion(v) ==
  IF v = None \/ strip(v) = <<>>
  THEN Ok(None)
  ELSE LET s == strip(v)
       IN  IF Len(s) > DIRECCION_MAX
           THEN Err("Value error, La dirección no puede exceder 255 caracteres")
           ELSE Ok(s)

validar_ocupacion(v) ==
  IF v = None \/ strip(v) = <<>>
  THEN Ok(None)
  ELSE LET s == strip(v)
       IN  IF Len(s) > OCUPACION_MAX
           THEN Err("Value error, La ocupación no puede exceder 100 caracteres")
           ELSE IF ~MatchClass(s, Letters \cup Whitespace \cup {".", "-"})
           THEN Err("Value error, La ocupación solo puede contener letras, espacios, puntos y guiones")
           ELSE Ok(title(s))

estados_validos ==
  { <<"S","o","l","t","e","r","o">>, <<"S","o","l","t","e","r","a">>,
    <<"C","a","s","a","d","o">>, <<"C","a","s","a","d","a">>,
    <<"D","i","v","o","r","c","i","a","d","o">>,
    <<"D","i","v","o","r","c","i","a","d","a">>,
    <<"V","i","u","d","o">>, <<"V","i","u","d","a">>,
    <<"U","n","i","ó","n"," ","L","i","b","r","e">> }

validar_estado_civil(v) ==
  IF v = None \/ strip(v) = <<>>
  THEN Ok(None)
  ELSE LET s == title(strip(v))
       IN  IF s \notin estados_validos
           THEN Err("Value error, Estado civil inválido. Opciones válidas: Soltero, Soltera, Casado, Casada, Divorciado, Divorciada, Viudo, Viuda, Unión Libre")
           ELSE Ok(s)

(***************************************************************************)
(* datetime.date: ordinals, str(date), and the DATE column's way back.     *)
(***************************************************************************)
DigitSeq == <<"0","1","2","3","4","5","6","7","8","9">>
DigitVal(c) == IndexOf(c, DigitSeq) - 1

RECURSIVE Pad(_, _)
\* '%0<w>d' % n
Pad(n, w) == IF w = 0 THEN <<>> ELSE Pad(n \div 10, w - 1) \o <<DigitSeq[(n % 10) + 1]>>

RECURSIVE Num(_)
\* int(s) of a digit string
Num(s) == IF s = <<>> THEN 0 ELSE 10 * Num(SubSeq(s, 1, Len(s) - 1)) + DigitVal(s[Len(s)])

is_leap(y) == y % 4 = 0 /\ (y % 100 # 0 \/ y % 400 = 0)
days_before_year(y) == (y - 1) * 365 + (y - 1) \div 4 - (y - 1) \div 100 + (y - 1) \div 400
DAYS_BEFORE_MONTH == <<0, 31, 59, 90, 120, 151, 181, 212, 243, 273, 304, 334>>
days_before_month(y, m) == DAYS_BEFORE_MONTH[m] + (IF m > 2 /\ is_leap(y) THEN 1 ELSE 0)

\* date.toordinal()
toordinal(d) == days_before_year(d.year) + days_before_month(d.year, d.month) + d.day

\* str(date): 'YYYY-MM-DD'
date_str(d) == Pad(d.year, 4) \o <<"-">> \o Pad(d.month, 2) \o <<"-">> \o Pad(d.day, 2)

\* The DATE column: the 'YYYY-MM-DD' literal of the statement, read back by
\* the connector as a datetime.date.
date_column(s) ==
  [year |-> Num(SubSeq(s, 1, 4)), month |-> Num(SubSeq(s, 6, 7)), day |-> Num(SubSeq(s, 9, 10))]

\* date.today()
today == [year |-> 2025, month |-> 3, day |-> 10]

\* validar_fecha_nacimiento rejecting edad_aprox >= 150.
validar_fecha_nacimiento_desde_150(v) ==
  IF toordinal(v) > toordinal(today)
  THEN Err("Value error, La fecha de nacimiento no puede ser futura")
  ELSE LET edad_aprox == (toordinal(today) - toordinal(v)) \div DIAS_ANIO
       IN  IF edad_aprox >= EDAD_MAX
           THEN Err("Value error, La fecha de nacimiento no es válida")
           ELSE Ok(v)

validar_fecha_nacimiento(v) ==
  IF toordinal(v) > toordinal(today)
  THEN Err("Value error, La fecha de nacimiento no puede ser futura")
  ELSE LET edad_aprox == (toordinal(today) - toordinal(v)) \div DIAS_ANIO
       IN  IF edad_aprox > EDAD_MAX
           THEN Err("Value error, La fecha de nacimiento no es válida")
           ELSE Ok(v)

(***************************************************************************)
(* email: EmailStr.  pydantic strips the value and hands it to the         *)
(* email-validator package (no deliverability check): one @, a dot-atom    *)
(* local part of at most EMAIL_LOCAL_MAX characters, a domain of           *)
(* dot-separated labels with at least one period, at most EMAIL_MAX        *)
(* characters in all; the value kept is the address with its domain        *)
(* lower-cased.                                                            *)
(***************************************************************************)
EMAIL_LOCAL_MAX == 64
EMAIL_MAX == 254
AsciiLetters == Range(LowerAscii) \cup Range(UpperAscii)
Atext == AsciiLetters \cup Digits \cup {"!", "#", "$", "%", "&", "+", "-", "/", "=", "?", "^", "_", "~"}

DotAtom(s, class) ==
  /\ Len(s) >= 1
  /\ \A i \in DOMAIN s : s[i] \in class \cup {"."}
  /\ s[1] # "." /\ s[Len(s)] # "."
  /\ \A i \in 1..(Len(s) - 1) : ~(s[i] = "." /\ s[i + 1] = ".")

EmailStr(v) ==
  LET s == strip(v)
      ats == {i \in DOMAIN s : s[i] = "@"}
  IN  IF Cardinality(ats) # 1
      THEN Err("value is not a valid email address")
      ELSE LET at == CHOOSE i \in ats : TRUE
               local == SubSeq(s, 1, at - 1)
               domain == SubSeq(s, at + 1, Len(s))
           IN  IF /\ DotAtom(local, Atext)
                  /\ Len(local) <= EMAIL_LOCAL_MAX
                  /\ DotAtom(domain, AsciiLetters \cup Digits \cup {"-"})
                  /\ \E i \in DOMAIN domain : domain[i] = "."
                  /\ \A i \in DOMAIN domain :
                       domain[i] = "-" =>
                         /\ i > 1 /\ i < Len(domain)
                         /\ domain[i - 1] # "." /\ domain[i + 1] # "."
                  /\ Len(s) <= EMAIL_MAX
               THEN Ok(local \o <<"@">> \o lower(domain))
               ELSE Err("value is not a valid email address")

(***************************************************************************)
(* ResidenteBase(...): every field is validated, in declaration order; the *)
(* model is built when all succeed, and otherwise ValidationError carries  *)
(* one error per failing field.                                            *)
(***************************************************************************)
Campos == <<"nombre", "apellido", "fecha_nacimiento", "pasaporte", "email",
            "telefono", "direccion", "ocupacion", "estado_civil">>
Opcionales == {"telefono", "direccion", "ocupacion", "estado_civil"}

validar(campo, v) ==
  CASE campo \in {"nombre", "apellido"} -> validar_nombre_apellido(v)
    [] campo = "fecha_nacimiento" -> validar_fecha_nacimiento(v)
    [] campo = "pasaporte" -> validar_pasaporte(v)
    [] campo = "email" -> EmailStr(v)
    [] campo = "telefono" -> validar_telefono(v)
    [] campo = "direccion" -> validar_direccion(v)
    [] campo = "ocupacion" -> validar_ocupacion(v)
    [] campo = "estado_civil" -> validar_estado_civil(v)

\* ValidationErrors stopping at the first failing field.
ValidationErrorsPrimero(kwargs) ==
  LET bad == SelectSeq(Campos, LAMBDA c : ~validar(c, kwargs[c]).ok)
  IN  [i \in DOMAIN bad \cap {1} |-> [loc |-> bad[i], msg |-> validar(bad[i], kwargs[bad[i]]).msg]]

\* e.errors(): the failing fields, in declaration order.
ValidationErrors(kwargs) ==
  LET bad == SelectSeq(Campos, LAMBDA c : ~validar(c, kwargs[c]).ok)
  IN  [i \in DOMAIN bad |-> [loc |-> bad[i], msg |-> validar(bad[i], kwargs[bad[i]]).msg]]

\* ResidenteBase(**kwargs): the validated model, or the ValidationError.
ResidenteBase(kwargs) ==
  LET errors == ValidationErrors(kwargs)
  IN  IF errors = <<>>
      THEN [valid |-> TRUE, data |-> [c \in Range(Campos) |-> validar(c, kwargs[c]).value]]
      ELSE [valid |-> FALSE, errors |-> errors]

(***************************************************************************)
(* The submissions the handlers are given: the nine form fields as the     *)
(* framework passes them (a str, a date for fecha_nacimiento, None for an  *)
(* optional field that was not sent).                                      *)
(***************************************************************************)
FormA ==
  [ nombre |-> <<"a", "n", "a">>,
    apellido |-> <<"d", "i", "a", "z">>,
    fecha_nacimiento |-> [year |-> 1990, month |-> 5, day |-> 17],
    pasaporte |-> <<"a", "b", "-", "1", "2", "3", "4">>,
    email |-> <<"a", "n", "a", "@", "M", "a", "i", "l", ".", "c", "o", "m">>,
    telefono |-> <<"1", "2", "3", "-", "4", "5", "6", "-", "7", "8", "9", "0">>,
    direccion |-> <<"c", "a", "l", "l", "e", " ", "1">>,
    ocupacion |-> <<"d", "r", ".", " ", "h", "o", "u", "s", "e">>,
    estado_civil |-> <<"s", "o", "l", "t", "e", "r", "o">> ]

\* The optional fields not sent.
FormB ==
  [ nombre |-> <<" ", "j", "o", "s", "é", " ", "p", "é", "r", "e", "z", " ">>,
    apellido |-> <<"l", "i">>,
    fecha_nacimiento |-> [year |-> 2025, month |-> 3, day |-> 10],
    pasaporte |-> <<" ", "x", "y", "9", "9", "9", "9", " ">>,
    email |-> <<"x", "@", "y", ".", "e", "s">>,
    telefono |-> None,
    direccion |-> None,
    ocupacion |-> None,
    estado_civil |-> None ]

\* The oldest accepted date of birth, a telefono with prefix and spaces.
FormD ==
  [ nombre |-> <<"e", "v", "a">>,
    apellido |-> <<"d", "i", "a", "z">>,
    fecha_nacimiento |-> [year |-> 1874, month |-> 4, day |-> 17],
    pasaporte |-> <<"P", "-", "0", "0", "0", "0", "0", "1">>,
    email |-> <<"e", "v", "a", "@", "y", ".", "e", "s">>,
    telefono |-> <<"+", "3", "4", " ", "6", "0", "0", " ", "1", "1", "1", " ", "2", "2", "2">>,
    direccion |-> None,
    ocupacion |-> None,
    estado_civil |-> <<"u", "n", "i", "ó", "n", " ", "l", "i", "b", "r", "e">> ]

\* One rejected value per field, and a second one of another kind.
Invalido ==
  [ nombre |-> <<"a">>,
    apellido |-> <<" ", " ">>,
    fecha_nacimiento |-> [year |-> 2025, month |-> 3, day |-> 11],
    pasaporte |-> <<"a", "b", "1">>,
    email |-> <<"b", "a", "d">>,
    telefono |-> <<"1", "2", "3">>,
    direccion |-> [i \in 1..(DIRECCION_MAX + 1) |-> "x"],
    ocupacion |-> <<"x", "9">>,
    estado_civil |-> <<"c", "o", "m", "p", "r", "o", "m", "e", "t", "i", "d", "o">> ]

Invalido2 ==
  [ nombre |-> <<"a", "n", "4">>,
    apellido |-> [i \in 1..(NOMBRE_MAX + 1) |-> "a"],
    fecha_nacimiento |-> [year |-> 1874, month |-> 4, day |-> 16],
    pasaporte |-> <<"a", "b", "_", "1", "2", "3", "4">>,
    email |-> <<"a", "@", "b">>,
    telefono |-> <<"1", "2", "a", "b", "5", "6", "7", "8">>,
    direccion |-> [i \in 1..(DIRECCION_MAX + 1) |-> "y"],
    ocupacion |-> [i \in 1..(OCUPACION_MAX + 1) |-> "a"],
    estado_civil |-> <<"x">> ]

Corrupt(form, campos, malos) ==
  [c \in DOMAIN form |-> IF c \in campos THEN malos[c] ELSE form[c]]

\* FormB with its optional fields sent as v.
Vacio(v) ==
  [FormB EXCEPT !.telefono = v, !.direccion = v, !.ocupacion = v, !.estado_civil = v]

\* An address of 151 characters (60 + 1 + 60 + 1 + 26 + 3) within every limit
\* of EmailStr: a local part of 60, domain labels of 60, 26 and 2.
Repite(c, n) == [i \in 1..n |-> c]
EmailLargo ==
  Repite("a", 60) \o <<"@">> \o Repite("b", 60) \o <<".">> \o Repite("c", 26) \o <<".", "e", "s">>

\* The submissions, by number: two complete ones, one with the optional
\* fields not sent, one with three fields rejected; then the optional fields
\* sent empty and sent as whitespace, each field rejected alone, and other
\* fields rejected together; last, a complete one whose email is EmailLargo.
Forms ==
  << FormA, FormD, Vacio(None),
     Corrupt(FormA, {"nombre", "email", "telefono"}, Invalido2),
     Vacio(<<>>), Vacio(<<" ", " ">>),
     [FormB EXCEPT !.telefono = <<>>, !.direccion = <<" ", "\t">>, !.estado_civil = <<"\n">>] >>
  \o [i \in DOMAIN Campos |-> Corrupt(FormA, {Campos[i]}, Invalido)]
  \o << Corrupt(FormA, {"fecha_nacimiento"}, Invalido2),
        Corrupt(FormB, {"apellido", "estado_civil"}, Invalido),
        Corrupt(FormA, Range(Campos), Invalido2),
        [FormA EXCEPT !.email = EmailLargo] >>

(***************************************************************************)
(* The table `residentes` and its statements.  A row is a record with the  *)
(* column id and the nine columns of Campos; the table is the set of its   *)
(* committed rows.  The column id is the AUTO_INCREMENT primary key: a row *)
(* inserted without an id takes the counter's value, and the counter only  *)
(* grows.                                                                  *)
(***************************************************************************)
Columnas == Range(Campos) \cup {"id"}

\* Fila with the values of telefono and direccion bound to each other's
\* placeholder.
FilaDesordenada(id, params) ==
  [c \in Columnas |->
     IF c = "id" THEN id
     ELSE IF c = "fecha_nacimiento" THEN date_column(params[c])
     ELSE IF c = "telefono" THEN params["direccion"]
     ELSE IF c = "direccion" THEN params["telefono"]
     ELSE params[c]]

\* The values of a statement's parameters as the columns store them.
Fila(id, params) ==
  [c \in Columnas |->
     IF c = "id" THEN id
     ELSE IF c = "fecha_nacimiento" THEN date_column(params[c])
     ELSE params[c]]

\* The id column, an auto-increment primary key: the id a new row takes and
\* the counter after it.
AutoIncrement(db) == [id |-> db.auto_increment, next |-> db.auto_increment + 1]

\* INSERT INTO residentes (nombre, ...) VALUES (%s, ...): lastrowid is the
\* id the counter gave.
SqlInsert(db, params) ==
  LET auto == AutoIncrement(db)
  IN  [ residentes |-> db.residentes \cup {Fila(auto.id, params)},
        auto_increment |-> auto.next,
        lastrowid |-> auto.id ]

\* SqlUpdate without its WHERE clause: every row is set.
SqlUpdateSinWhere(db, id, params) ==
  [ residentes |-> {Fila(r.id, params) : r \in db.residentes},
    auto_increment |-> db.auto_increment,
    rowcount |-> Cardinality({r \in db.residentes : r # Fila(r.id, params)}) ]

\* SqlUpdate as REPLACE INTO residentes (id, nombre, ...): the row is written
\* whether or not one has the id.
SqlReplaceInto(db, id, params) ==
  [ residentes |-> {r \in db.residentes : r.id # id} \cup {Fila(id, params)},
    auto_increment |-> db.auto_increment,
    rowcount |-> 1 ]

\* SqlUpdate setting only the five required columns.
SqlUpdateParcial(db, id, params) ==
  LET matched == {r \in db.residentes : r.id = id}
      set(r) == [c \in Columnas |-> IF c \in Opcionales THEN r[c] ELSE Fila(r.id, params)[c]]
      changed == {r \in matched : r # set(r)}
  IN  [ residentes |-> (db.residentes \ matched) \cup {set(r) : r \in matched},
        auto_increment |-> db.auto_increment,
        rowcount |-> Cardinality(changed) ]

\* UPDATE residentes SET nombre = %s, ... WHERE id = %s.  The connection is
\* opened without the FOUND_ROWS client flag, so rowcount counts the rows
\* the statement changed, not the rows its WHERE clause matched.
SqlUpdate(db, id, params) ==
  LET matched == {r \in db.residentes : r.id = id}
      changed == {r \in matched : r # Fila(r.id, params)}
  IN  [ residentes |-> (db.residentes \ matched) \cup {Fila(r.id, params) : r \in matched},
        auto_increment |-> db.auto_increment,
        rowcount |-> Cardinality(changed) ]

\* DELETE FROM residentes WHERE id = %s
SqlDelete(db, id) ==
  LET matched == {r \in db.residentes : r.id = id}
  IN  [ residentes |-> db.residentes \ matched,
        auto_increment |-> db.auto_increment,
        rowcount |-> Cardinality(matched) ]

\* The rows and ids of a table.
Existe(tabla, id) == \E r \in tabla : r.id = id
IdsDe(tabla) == {r.id : r \in tabla}
FilaDe(tabla, id) == CHOOSE r \in tabla : r.id = id

\* SELECT ... FROM residentes WHERE id = %s; fetchone()
SqlSelectById(db, id) ==
  LET matched == {r \in db.residentes : r.id = id}
  IN  IF matched = {} THEN None ELSE CHOOSE r \in matched : TRUE

(***************************************************************************)
(* The repository functions of app/database.py.  `fault` is the step of    *)
(* the call at which the driver raises mysql.connector.Error ("none": at   *)
(* no step).  A call returns [raised, ret] and the database it leaves: a   *)
(* transaction that was not committed is rolled back when the connection   *)
(* closes, its AUTO_INCREMENT value stays used.                            *)
(***************************************************************************)
WriteFaults == {"none", "connect", "cursor", "execute", "commit"}
ReadFaults == {"none", "connect", "cursor", "execute", "fetch"}

Raised(db) ==
  [raised |-> TRUE, ret |-> None, residentes |-> db.residentes, auto_increment |-> db.auto_increment]
Returned(db, ret) ==
  [raised |-> FALSE, ret |-> ret, residentes |-> db.residentes, auto_increment |-> db.auto_increment]

\* insert_residente returning cur.rowcount.
insert_residente_rowcount(db, params, fault) ==
  IF fault \in {"connect", "cursor", "execute"} THEN Raised(db)
  ELSE LET done == SqlInsert(db, params)
       IN  IF fault = "commit"
           THEN Raised([db EXCEPT !.auto_increment = done.auto_increment])
           ELSE Returned(done, 1)

insert_residente(db, params, fault) ==
  IF fault \in {"connect", "cursor", "execute"} THEN Raised(db)
  ELSE LET done == SqlInsert(db, params)
       IN  IF fault = "commit"
           THEN Raised([db EXCEPT !.auto_increment = done.auto_increment])
           ELSE Returned(done, IF done.lastrowid = 0 THEN 0 ELSE done.lastrowid)

\* delete_residente returning rowcount >= 0.
delete_residente_siempre(db, residente_id, fault) ==
  IF fault \in {"connect", "cursor", "execute"} THEN Raised(db)
  ELSE LET done == SqlDelete(db, residente_id)
       IN  IF fault = "commit" THEN Raised(db)
           ELSE Returned(done, done.rowcount >= 0)

delete_residente(db, residente_id, fault) ==
  IF fault \in {"connect", "cursor", "execute"} THEN Raised(db)
  ELSE LET done == SqlDelete(db, residente_id)
       IN  IF fault = "commit" THEN Raised(db)
           ELSE Returned(done, done.rowcount > 0)

fetch_residente_by_id(db, residente_id, fault) ==
  IF fault # "none" THEN Raised(db)
  ELSE Returned(db, SqlSelectById(db, residente_id))

fetch_all_residentes(db, fault) ==
  IF fault # "none" THEN Raised(db)
  ELSE Returned(db, db.residentes)

update_residente(db, residente_id, params, fault) ==
  IF fault \in {"connect", "cursor", "execute"} THEN Raised(db)
  ELSE LET done == SqlUpdate(db, residente_id, params)
       IN  IF fault = "commit" THEN Raised(db)
           ELSE Returned(done, done.rowcount > 0)

(***************************************************************************)
(* Responses.                                                              *)
(***************************************************************************)
Response(status, kind, errores) == [status |-> status, kind |-> kind, errores |-> errores]

\* RedirectResponse(url="/", status_code=303)
Redirect == Response(303, "redirect", <<>>)

\* custom_http_exception_handler rendering the 500 page for a 404.
custom_http_exception_handler_500(status_code) ==
  IF status_code = 404 THEN Response(500, "pages/error_500.html", <<>>)
  ELSE Response(status_code, "json", <<>>)

custom_http_exception_handler(status_code) ==
  IF status_code = 404 THEN Response(404, "pages/error_404.html", <<>>)
  ELSE Response(status_code, "json", <<>>)

database_exception_handler == Response(500, "pages/error_500.html", <<>>)

general_exception_handler == Response(500, "pages/error_500.html", <<>>)

\* campo.capitalize()
Capitalize ==
  [ nombre |-> "Nombre", apellido |-> "Apellido", fecha_nacimiento |-> "Fecha_nacimiento",
    pasaporte |-> "Pasaporte", email |-> "Email", telefono |-> "Telefono",
    direccion |-> "Direccion", ocupacion |-> "Ocupacion", estado_civil |-> "Estado_civil" ]

\* errores: one "<Campo>: <mensaje>" per error of the ValidationError.
Errores(errors) ==
  [i \in DOMAIN errors |-> [campo |-> Capitalize[errors[i].loc], mensaje |-> errors[i].msg]]

\* The keyword arguments the handlers build: `x if x else None` for the
\* optional fields.
Kwargs(form) ==
  [c \in DOMAIN form |->
     IF c \in Opcionales /\ (form[c] = None \/ form[c] = <<>>) THEN None ELSE form[c]]

\* ResidenteCreate(...) / ResidenteUpdate(...) on submission number k.
ResidenteCreate(k) == ResidenteBase(Kwargs(Forms[k]))

\* The arguments the handlers pass to insert_residente / update_residente.
Params(data) ==
  [c \in DOMAIN data |-> IF c = "fecha_nacimiento" THEN date_str(data[c]) ELSE data[c]]

(***************************************************************************)
(* State.                                                                  *)
(***************************************************************************)
VARIABLES
  residentes,      \* the committed rows of the table
  auto_increment,  \* the table's AUTO_INCREMENT counter
  request,         \* the request served last
  call,            \* the repository call it made
  response,        \* the response it got
  asignados,       \* history: the ids inserts have returned
  eliminados,      \* history: the ids for which delete_residente returned True
  modelos,         \* ResidenteCreate(k), a pure function, for each submission k of Forms
  fecha,           \* the value handed to validar_fecha_nacimiento
  validada,        \* what it gave: <<>> before the call, <<result>> after it
  hilos,           \* the repository call each request thread is in, step by step
  llamadas,        \* history: how many repository calls the threads have started
  escritor         \* history: per id, the submission of the INSERT or UPDATE committed last

vars == <<residentes, auto_increment, request, call, response, asignados, eliminados, modelos,
          fecha, validada, hilos, llamadas, escritor>>

\* The variables the handlers leave alone.
otras == <<fecha, validada, hilos, llamadas, escritor>>

db == [residentes |-> residentes, auto_increment |-> auto_increment]


\* A request: its handler, its path parameter (0: it has none) and the
\* number of its submission (0: it has none).
Request(handler, id, form) == [handler |-> handler, residente_id |-> id, form |-> form]

\* A repository call: the function, its residente_id (0: it has none), the
\* step at which the driver faulted, whether it raised, and what it returned:
\* ret for the bool of update_residente and delete_residente and for whether
\* fetch_residente_by_id found a row, lastrowid for the int of
\* insert_residente.
Call(op, id, fault, result) ==
  [op |-> op, residente_id |-> id, fault |-> fault, raised |-> result.raised,
   ret |-> IF result.raised THEN FALSE
           ELSE IF op \in {"update_residente", "delete_residente"} THEN result.ret
           ELSE IF op = "fetch_residente_by_id" THEN result.ret # None
           ELSE TRUE,
   lastrowid |-> IF op = "insert_residente" /\ ~result.raised THEN result.ret ELSE 0]
NoCall == [op |-> "none", residente_id |-> 0, fault |-> "none", raised |-> FALSE,
           ret |-> FALSE, lastrowid |-> 0]

\* The application started on an empty table, no request served yet.
Inicio ==
  /\ residentes = {}
  /\ auto_increment = 1
  /\ request = Request("none", 0, 0)
  /\ call = NoCall
  /\ response = Response(0, "none", <<>>)
  /\ asignados = {}
  /\ eliminados = {}
  /\ modelos = [k \in DOMAIN Forms |-> ResidenteCreate(k)]

\* A request thread's view of one repository call: the function and its
\* arguments (residente_id and the number of the submission, 0: none), the
\* statement it is at, conn and cur ("None" before they are assigned), how
\* many statements it executed and commits it issued, the rows its open
\* transaction removes and adds, cur.rowcount, cur.lastrowid, whether the
\* call raised and at which statement, and the bool it returned.
Idle ==
  [op |-> "none", residente_id |-> 0, form |-> 0, pc |-> "idle", conn |-> "None", cur |-> "None",
   ejecutadas |-> 0, commits |-> 0, borra |-> {}, pone |-> {}, rowcount |-> 0, lastrowid |-> 0,
   raised |-> FALSE, fault |-> "none", ret |-> FALSE]

\* The threads that serve requests: two at a time.
Hilos == {"h1", "h2"}

\* No thread is inside a repository call.
SinHilos ==
  /\ hilos = [h \in Hilos |-> Idle]
  /\ llamadas = 0
  /\ escritor = <<>>

Init ==
  /\ Inicio
  /\ fecha = today
  /\ validada = <<>>
  /\ SinHilos

Commit(result) ==
  /\ residentes' = result.residentes
  /\ auto_increment' = result.auto_increment
  /\ UNCHANGED modelos

\* POST /residentes/nuevo
post_nuevo_residente(form) ==
  /\ request' = Request("post_nuevo_residente", 0, form)
  /\ UNCHANGED otras
  /\ LET residente_data == modelos[form]
     IN  IF ~residente_data.valid
         THEN /\ response' = Response(422, "pages/nuevo_residente.html", Errores(residente_data.errors))
              /\ call' = NoCall
              /\ UNCHANGED <<residentes, auto_increment, asignados, eliminados, modelos>>
         ELSE \E fault \in WriteFaults :
                LET params == Params(residente_data.data)
                    result == insert_residente(db, params, fault)
                IN  /\ Commit(result)
                    /\ call' = Call("insert_residente", 0, fault, result)
                    /\ response' = IF result.raised THEN database_exception_handler ELSE Redirect
                    /\ asignados' = IF result.raised THEN asignados ELSE asignados \cup {result.ret}
                    /\ UNCHANGED eliminados

\* DELETE /residentes/{residente_id}
delete_residente_endpoint(residente_id) ==
  \E fault \in WriteFaults :
    LET result == delete_residente(db, residente_id, fault)
    IN  /\ request' = Request("delete_residente_endpoint", residente_id, 0)
        /\ UNCHANGED otras
        /\ Commit(result)
        /\ call' = Call("delete_residente", residente_id, fault, result)
        /\ response' = IF result.raised THEN database_exception_handler
                       ELSE IF ~result.ret THEN custom_http_exception_handler(404)
                       ELSE Response(200, "json", <<>>)
        /\ eliminados' = IF ~result.raised /\ result.ret THEN eliminados \cup {residente_id}
                         ELSE eliminados
        /\ UNCHANGED asignados

\* GET /residentes/editar/{residente_id}
get_editar_residente(residente_id) ==
  \E fault \in ReadFaults :
    LET result == fetch_residente_by_id(db, residente_id, fault)
    IN  /\ request' = Request("get_editar_residente", residente_id, 0)
        /\ UNCHANGED otras
        /\ call' = Call("fetch_residente_by_id", residente_id, fault, result)
        /\ response' = IF result.raised THEN database_exception_handler
                       ELSE IF result.ret = None THEN custom_http_exception_handler(404)
                       ELSE Response(200, "pages/editar_residente.html", <<>>)
        /\ UNCHANGED <<residentes, auto_increment, asignados, eliminados, modelos>>

\* GET /
get_index ==
  \E fault \in ReadFaults :
    LET result == fetch_all_residentes(db, fault)
    IN  /\ request' = Request("get_index", 0, 0)
        /\ UNCHANGED otras
        /\ call' = Call("fetch_all_residentes", 0, fault, result)
        /\ response' = IF result.raised THEN database_exception_handler
                       ELSE Response(200, "pages/index.html", <<>>)
        /\ UNCHANGED <<residentes, auto_increment, asignados, eliminados, modelos>>

\* post_editar_residente calling update_residente with the submitted values
\* before it validates them.
post_editar_residente_escribe_antes(residente_id, form) ==
  /\ request' = Request("post_editar_residente", residente_id, form)
  /\ UNCHANGED otras
  /\ \E fault \in WriteFaults :
       LET residente_data == modelos[form]
           params == Params(Kwargs(Forms[form]))
           result == update_residente(db, residente_id, params, fault)
       IN  /\ Commit(result)
           /\ call' = IF residente_data.valid
                      THEN Call("update_residente", residente_id, fault, result)
                      ELSE NoCall
           /\ response' = IF ~residente_data.valid
                          THEN Response(422, "pages/editar_residente.html", Errores(residente_data.errors))
                          ELSE IF result.raised THEN database_exception_handler
                          ELSE IF ~result.ret THEN custom_http_exception_handler(404)
                          ELSE Redirect
           /\ UNCHANGED <<asignados, eliminados>>

\* POST /residentes/editar/{residente_id}
post_editar_residente(residente_id, form) ==
  /\ request' = Request("post_editar_residente", residente_id, form)
  /\ UNCHANGED otras
  /\ LET residente_data == modelos[form]
     IN  IF ~residente_data.valid
         THEN /\ response' = Response(422, "pages/editar_residente.html", Errores(residente_data.errors))
              /\ call' = NoCall
              /\ UNCHANGED <<residentes, auto_increment, asignados, eliminados, modelos>>
         ELSE \E fault \in WriteFaults :
                LET params == Params(residente_data.data)
                    result == update_residente(db, residente_id, params, fault)
                IN  /\ Commit(result)
                    /\ call' = Call("update_residente", residente_id, fault, result)
                    /\ response' = IF result.raised THEN database_exception_handler
                                   ELSE IF ~result.ret THEN custom_http_exception_handler(404)
                                   ELSE Redirect
                    /\ UNCHANGED <<asignados, eliminados>>

(***************************************************************************)
(* Spec: the five handlers on tables of up to MaxId rows, with the first   *)
(* NForms submissions.  SpecForms: the same handlers with every submission *)
(* of Forms, on tables of up to MaxIdForms rows.  The counter is capped:   *)
(* no submission is inserted once it has passed the bound.                 *)
(***************************************************************************)
MaxId == 2
NForms == 4
MaxIdForms == 1

\* post_nuevo_residente while the counter has not passed max.
Nuevo(form, max) ==
  /\ modelos[form].valid => auto_increment <= max
  /\ post_nuevo_residente(form)

Next ==
  \/ \E form \in 1..NForms : Nuevo(form, MaxId)
  \/ \E id \in 1..MaxId : delete_residente_endpoint(id)
  \/ \E id \in 1..MaxId : get_editar_residente(id)
  \/ get_index
  \/ \E id \in 1..MaxId, form \in 1..NForms : post_editar_residente(id, form)

Spec == Init /\ [][Next]_vars

NextForms ==
  \/ \E form \in DOMAIN modelos : Nuevo(form, MaxIdForms)
  \/ \E id \in 1..MaxIdForms : delete_residente_endpoint(id)
  \/ \E id \in 1..MaxIdForms : get_editar_residente(id)
  \/ get_index
  \/ \E id \in 1..MaxIdForms, form \in DOMAIN modelos : post_editar_residente(id, form)

SpecForms == Init /\ [][NextForms]_vars

(***************************************************************************)
(* SpecFechas: validar_fecha_nacimiento applied to each date of the years  *)
(* of Anios, which hold today, the days after it, and the days 150 * 365   *)
(* and 151 * 365 days before it.                                           *)
(***************************************************************************)
Anios == {1874, 1875, 2024, 2025}
DaysInMonth(y, m) ==
  IF m = 12 THEN 31 ELSE days_before_month(y, m + 1) - days_before_month(y, m)
Fechas ==
  {f \in [year : Anios, month : 1..12, day : 1..31] : f.day <= DaysInMonth(f.year, f.month)}

InitFechas ==
  /\ Inicio
  /\ fecha \in Fechas
  /\ validada = <<>>
  /\ SinHilos

\* ResidenteBase.validar_fecha_nacimiento(fecha)
ValidarFecha ==
  /\ validada = <<>>
  /\ validada' = <<validar_fecha_nacimiento(fecha)>>
  /\ UNCHANGED <<residentes, auto_increment, request, call, response, asignados, eliminados,
                 modelos, fecha, hilos, llamadas, escritor>>

NextFechas == ValidarFecha

SpecFechas == InitFechas /\ [][NextFechas]_vars

(***************************************************************************)
(* SpecHilos: the repository functions statement by statement, called by   *)
(* two request threads at once (the handlers are plain `def` functions,    *)
(* which the framework runs on worker threads).  Every call opens its own  *)
(* connection; autocommit is off, so what a statement writes is pending    *)
(* in the connection's transaction until conn.commit(), and is discarded   *)
(* when the connection closes without it.  Any of get_connection,          *)
(* conn.cursor, cur.execute, cur.fetchone / cur.fetchall, conn.commit and  *)
(* cur.close may raise mysql.connector.Error.                              *)
(***************************************************************************)
MaxLlamadas == 2
FormsHilos == {1, 2}
Escrituras == {"insert_residente", "update_residente", "delete_residente"}

\* The rows another open transaction has written and not committed: the
\* engine makes a statement on one of them wait.
Bloqueada(h) ==
  /\ hilos[h].op \in Escrituras
  /\ \E g \in Hilos \ {h} :
       /\ hilos[g].conn = "open"
       /\ hilos[g].commits = 0
       /\ hilos[h].residente_id \in {r.id : r \in hilos[g].borra \cup hilos[g].pone}

\* The variables of the handlers, which a statement of a call leaves alone.
aparte == <<request, call, response, asignados, eliminados, modelos, fecha, validada>>

Set(h, campos) ==
  /\ hilos' = [hilos EXCEPT ![h] = campos @@ hilos[h]]
  /\ UNCHANGED aparte

Raise(h, fault, pc) ==
  Set(h, [raised |-> TRUE, pc |-> pc,
          fault |-> IF hilos[h].raised THEN hilos[h].fault ELSE fault])

\* A handler calls a repository function: conn = None
Llamar(h, op, id, form) ==
  /\ hilos[h].pc \in {"idle", "done"}
  /\ llamadas < MaxLlamadas
  /\ llamadas' = llamadas + 1
  /\ hilos' = [hilos EXCEPT ![h] = [op |-> op, residente_id |-> id, form |-> form,
                                     pc |-> "get_connection"] @@ Idle]
  /\ UNCHANGED <<residentes, auto_increment, escritor>>
  /\ UNCHANGED aparte

\* conn = get_connection()
get_connection(h) ==
  /\ hilos[h].pc = "get_connection"
  /\ \/ Set(h, [conn |-> "open", pc |-> "cursor"])
     \/ Raise(h, "connect", "conn_close")
  /\ UNCHANGED <<residentes, auto_increment, llamadas, escritor>>

\* cursor with conn.close() in the inner finally only: a fault of
\* conn.cursor() leaves the function at once.
cursor_sin_finally(h) ==
  /\ hilos[h].pc = "cursor"
  /\ \/ Set(h, [cur |-> "open", pc |-> "execute"])
     \/ Raise(h, "cursor", "done")
  /\ UNCHANGED <<residentes, auto_increment, llamadas, escritor>>

\* cur = conn.cursor()
cursor(h) ==
  /\ hilos[h].pc = "cursor"
  /\ \/ Set(h, [cur |-> "open", pc |-> "execute"])
     \/ Raise(h, "cursor", "conn_close")
  /\ UNCHANGED <<residentes, auto_increment, llamadas, escritor>>

\* What the statement of the call does to the table.
Statement(h) ==
  LET t == hilos[h]
      params == Params(modelos[t.form].data)
  IN  CASE t.op = "insert_residente" -> SqlInsert(db, params) @@ [rowcount |-> 1]
        [] t.op = "update_residente" -> SqlUpdate(db, t.residente_id, params) @@ [lastrowid |-> 0]
        [] t.op = "delete_residente" -> SqlDelete(db, t.residente_id) @@ [lastrowid |-> 0]
        [] t.op = "fetch_residente_by_id" ->
             [residentes |-> residentes, auto_increment |-> auto_increment, lastrowid |-> 0,
              rowcount |-> IF SqlSelectById(db, t.residente_id) = None THEN 0 ELSE 1]
        [] OTHER ->
             [residentes |-> residentes, auto_increment |-> auto_increment, lastrowid |-> 0,
              rowcount |-> Cardinality(residentes)]

\* execute inside `try: ... except: pass`: after a fault the function goes on
\* to conn.commit().
execute_y_sigue(h) ==
  /\ hilos[h].pc = "execute"
  /\ ~Bloqueada(h)
  /\ \/ \E done \in {Statement(h)} :
            /\ Set(h, [ejecutadas |-> hilos[h].ejecutadas + 1,
                       borra |-> residentes \ done.residentes,
                       pone |-> done.residentes \ residentes,
                       rowcount |-> done.rowcount, lastrowid |-> done.lastrowid,
                       pc |-> IF hilos[h].op \in Escrituras THEN "commit" ELSE "fetch"])
            /\ auto_increment' = done.auto_increment
     \/ /\ Raise(h, "execute", IF hilos[h].op \in Escrituras THEN "commit" ELSE "cur_close")
        /\ UNCHANGED auto_increment
  /\ UNCHANGED <<residentes, llamadas, escritor>>

\* cur.execute(...)
execute(h) ==
  /\ hilos[h].pc = "execute"
  /\ ~Bloqueada(h)
  /\ \/ \E done \in {Statement(h)} :
            /\ Set(h, [ejecutadas |-> hilos[h].ejecutadas + 1,
                       borra |-> residentes \ done.residentes,
                       pone |-> done.residentes \ residentes,
                       rowcount |-> done.rowcount, lastrowid |-> done.lastrowid,
                       pc |-> IF hilos[h].op \in Escrituras THEN "commit" ELSE "fetch"])
            /\ auto_increment' = done.auto_increment
     \/ /\ Raise(h, "execute", "cur_close")
        /\ UNCHANGED auto_increment
  /\ UNCHANGED <<residentes, llamadas, escritor>>

\* conn.commit(); return cur.lastrowid or 0 / return cur.rowcount > 0
commit(h) ==
  /\ hilos[h].pc = "commit"
  /\ \/ /\ residentes' = (residentes \ hilos[h].borra) \cup hilos[h].pone
        /\ escritor' = [id \in {r.id : r \in hilos[h].pone} |-> hilos[h].form] @@ escritor
        /\ Set(h, [commits |-> hilos[h].commits + 1, pc |-> "cur_close",
                   ret |-> IF hilos[h].op = "insert_residente" THEN TRUE
                           ELSE hilos[h].rowcount > 0])
     \/ /\ Raise(h, "commit", "cur_close")
        /\ UNCHANGED <<residentes, escritor>>
  /\ UNCHANGED <<auto_increment, llamadas>>

\* cur.fetchone() / cur.fetchall(); return
fetch(h) ==
  /\ hilos[h].pc = "fetch"
  /\ \/ Set(h, [pc |-> "cur_close",
                 ret |-> IF hilos[h].op = "fetch_residente_by_id" THEN hilos[h].rowcount > 0
                         ELSE TRUE])
     \/ Raise(h, "fetch", "cur_close")
  /\ UNCHANGED <<residentes, auto_increment, llamadas, escritor>>

\* finally: cur.close()
cur_close(h) ==
  /\ hilos[h].pc = "cur_close"
  /\ \/ Set(h, [cur |-> "closed", pc |-> "conn_close"])
     \/ Raise(h, "cur_close", "conn_close")
  /\ UNCHANGED <<residentes, auto_increment, llamadas, escritor>>

\* finally: if conn: conn.close(); the call returns or raises
conn_close(h) ==
  /\ hilos[h].pc = "conn_close"
  /\ Set(h, [conn |-> IF hilos[h].conn = "open" THEN "closed" ELSE hilos[h].conn,
             pc |-> "done"])
  /\ UNCHANGED <<residentes, auto_increment, llamadas, escritor>>

InitHilos ==
  /\ Inicio
  /\ fecha = today
  /\ validada = <<>>
  /\ SinHilos

\* A step of the call thread h is in.
Paso(h) ==
  \/ get_connection(h)
  \/ cursor(h)
  \/ execute(h)
  \/ commit(h)
  \/ fetch(h)
  \/ cur_close(h)
  \/ conn_close(h)

NextHilos ==
  \/ \E h \in Hilos, form \in FormsHilos : Llamar(h, "insert_residente", 0, form)
  \/ \E h \in Hilos, id \in 1..MaxIdForms, form \in FormsHilos :
       Llamar(h, "update_residente", id, form)
  \/ \E h \in Hilos, id \in 1..MaxIdForms : Llamar(h, "delete_residente", id, 0)
  \/ \E h \in Hilos, id \in 1..MaxIdForms : Llamar(h, "fetch_residente_by_id", id, 0)
  \/ \E h \in Hilos : Llamar(h, "fetch_all_residentes", 0, 0)
  \/ \E h \in Hilos : get_connection(h)
  \/ \E h \in Hilos : cursor(h)
  \/ \E h \in Hilos : execute(h)
  \/ \E h \in Hilos : commit(h)
  \/ \E h \in Hilos : fetch(h)
  \/ \E h \in Hilos : cur_close(h)
  \/ \E h \in Hilos : conn_close(h)

SpecHilos == InitHilos /\ [][NextHilos]_vars

(***************************************************************************)
(* SpecConcurrente: the two threads calling update_residente, from the     *)
(* state the application is in after POST /residentes/nuevo stored         *)
(* submission 1 as row 1.                                                  *)
(***************************************************************************)
InitConcurrente ==
  /\ residentes = {Fila(1, Params(ResidenteCreate(1).data))}
  /\ auto_increment = 2
  /\ request = Request("post_nuevo_residente", 0, 1)
  /\ call = [NoCall EXCEPT !.op = "insert_residente", !.ret = TRUE, !.lastrowid = 1]
  /\ response = Redirect
  /\ asignados = {1}
  /\ eliminados = {}
  /\ modelos = [k \in DOMAIN Forms |-> ResidenteCreate(k)]
  /\ fecha = today
  /\ validada = <<>>
  /\ hilos = [h \in Hilos |-> Idle]
  /\ llamadas = 0
  /\ escritor = <<1>>

NextConcurrente ==
  \/ \E h \in Hilos, id \in IdsDe(residentes), form \in FormsHilos :
       Llamar(h, "update_residente", id, form)
  \/ \E h \in Hilos : get_connection(h)
  \/ \E h \in Hilos : cursor(h)
  \/ \E h \in Hilos : execute(h)
  \/ \E h \in Hilos : commit(h)
  \/ \E h \in Hilos : cur_close(h)
  \/ \E h \in Hilos : conn_close(h)

\* Every thread runs: a call that can take a step takes one.
SpecConcurrente ==
  InitConcurrente /\ [][NextConcurrente]_vars /\ \A h \in Hilos : WF_hilos(Paso(h))

(***************************************************************************)
(* Properties.  A step of a handler leaves in request', call' and          *)
(* response' what it was given, the repository call it made and what it    *)
(* answered; the unprimed variables are the state it started from.         *)
(***************************************************************************)
Formularios == {"post_nuevo_residente", "post_editar_residente"}

\* C1: when validation of the submitted fields fails in post_nuevo_residente
\* or post_editar_residente, no repository call is made, the table and its
\* counter are as before the request, and the response is the form
\* re-rendered with status 422 and the errors.
C1_ValidationFailureNeverWrites ==
  [][ (request'.handler \in Formularios /\ ~modelos[request'.form].valid)
        => /\ call' = NoCall
           /\ residentes' = residentes
           /\ auto_increment' = auto_increment
           /\ response'.status = 422
           /\ response'.kind = (IF request'.handler = "post_nuevo_residente"
                                THEN "pages/nuevo_residente.html"
                                ELSE "pages/editar_residente.html")
           /\ response'.errores # <<>> ]_vars

C1_Witness ==
  /\ request.handler = "post_editar_residente"
  /\ ~modelos[request.form].valid
  /\ response.status = 422
  /\ Existe(residentes, request.residente_id)

\* C2: update_residente returns True exactly when a row has the id, whatever
\* the new values are; when no row has it, it returns False without raising
\* and the table is unchanged.
C2_UpdateReturnsWhetherMatched ==
  [][ call'.op = "update_residente"
        => /\ call'.raised => call'.fault # "none"
           /\ ~call'.raised => call'.ret = Existe(residentes, call'.residente_id)
           /\ ~Existe(residentes, call'.residente_id) => residentes' = residentes ]_vars

\* C3: update_residente on an id that has a row sets that row's nine columns
\* to the record's values, keeps its id, and leaves every other row and the
\* set of ids as they were.
C3_UpdateReplacesOneRow ==
  [][ (call'.op = "update_residente" /\ ~call'.raised
         /\ Existe(residentes, call'.residente_id))
        => LET id == call'.residente_id
               data == modelos[request'.form].data
           IN  /\ IdsDe(residentes') = IdsDe(residentes)
               /\ Cardinality(residentes') = Cardinality(residentes)
               /\ \A r \in residentes : r.id # id => r \in residentes'
               /\ \A r \in residentes' :
                    r.id = id => \A c \in Range(Campos) : r[c] = data[c] ]_vars

C3_Witness ==
  /\ call.op = "update_residente"
  /\ ~call.raised
  /\ call.ret = TRUE
  /\ Cardinality(residentes) = 2
  /\ \E r \in residentes : r.id # call.residente_id /\ r.nombre # FilaDe(residentes, call.residente_id).nombre

\* C4: delete_residente on an id without a row returns False, raises only
\* when the driver faults, and leaves the table unchanged; on an id with a
\* row it returns True and removes that row and no other.
C4_DeleteReturnsWhetherMatched ==
  [][ call'.op = "delete_residente"
        => LET id == call'.residente_id
           IN  /\ call'.raised => call'.fault # "none" /\ residentes' = residentes
               /\ ~call'.raised =>
                    /\ call'.ret = Existe(residentes, id)
                    /\ residentes' = {r \in residentes : r.id # id}
               /\ ~Existe(residentes, id) => residentes' = residentes ]_vars

C4_Witness ==
  /\ call.op = "delete_residente"
  /\ ~call.raised
  /\ call.ret = FALSE
  /\ eliminados # {}
  /\ residentes # {}

\* C5: once delete_residente has returned True for an id, no later state
\* resolves it: no row has it, fetch_residente_by_id returns None, and
\* update_residente (with any accepted record) and delete_residente return
\* False.
C5_DeletedIdNeverResolves ==
  \A id \in eliminados :
    /\ ~Existe(residentes, id)
    /\ fetch_residente_by_id(db, id, "none").ret = None
    /\ delete_residente(db, id, "none").ret = FALSE
    /\ \A k \in DOMAIN modelos :
         modelos[k].valid =>
           update_residente(db, id, Params(modelos[k].data), "none").ret = FALSE

C5_Witness ==
  /\ call.op = "insert_residente"
  /\ ~call.raised
  /\ \E id \in eliminados : id < call.lastrowid
  /\ request.form # 1

\* C6: after insert_residente of a record the validator accepted,
\* fetch_residente_by_id on the id it returned gives a row with that id whose
\* nine other columns equal the validator's output.
C6_InsertThenFetchRoundTrip ==
  (call.op = "insert_residente" /\ ~call.raised)
    => LET row == fetch_residente_by_id(db, call.lastrowid, "none").ret
           data == modelos[request.form].data
       IN  /\ row # None
           /\ row.id = call.lastrowid
           /\ \A c \in Range(Campos) : row[c] = data[c]

C6_Witness ==
  /\ call.op = "insert_residente"
  /\ ~call.raised
  /\ Cardinality(residentes) = 2
  /\ FilaDe(residentes, call.lastrowid).telefono # None
  /\ FilaDe(residentes, call.lastrowid).estado_civil # None

\* C7: no two rows share an id, every id in the table is one an insert
\* returned, and an insert_residente that returns gives the id of the one row
\* it added, an id no row had before.
C7_IdsUniqueAndAssignedByInsert ==
  [][ /\ \A r1, r2 \in residentes' : r1.id = r2.id => r1 = r2
      /\ IdsDe(residentes') \subseteq asignados'
      /\ (call'.op = "insert_residente" /\ ~call'.raised)
           => /\ call'.lastrowid \notin IdsDe(residentes)
              /\ \E r \in residentes' :
                   /\ r.id = call'.lastrowid
                   /\ r \notin residentes
                   /\ residentes' = residentes \cup {r} ]_vars

C7_Witness ==
  /\ call.op = "insert_residente"
  /\ ~call.raised
  /\ call.lastrowid = 2
  /\ IdsDe(residentes) = {1, 2}
  /\ FilaDe(residentes, 1).nombre = FilaDe(residentes, 2).nombre

\* C8: an optional field (telefono, direccion, ocupacion, estado_civil) that
\* is absent, empty or whitespace-only validates to None without an error,
\* and the create or update request stores NULL in its column.
Blank(v) == v = None \/ \A i \in DOMAIN v : v[i] \in Whitespace

C8_BlankOptionalIsNull ==
  request.handler \in Formularios
    => \A c \in Opcionales :
         Blank(Forms[request.form][c])
           => /\ validar(c, Kwargs(Forms[request.form])[c]) = Ok(None)
              /\ \A i \in DOMAIN response.errores : response.errores[i].campo # Capitalize[c]
              /\ (call.op \in {"insert_residente", "update_residente"} /\ ~call.raised)
                   => LET id == IF call.op = "insert_residente" THEN call.lastrowid
                                ELSE call.residente_id
                      IN  Existe(residentes, id) => FilaDe(residentes, id)[c] = None

C8_Witness ==
  /\ request.handler = "post_editar_residente"
  /\ call.op = "update_residente"
  /\ call.ret = TRUE
  /\ \A c \in Opcionales :
       /\ Forms[request.form][c] \notin {None, <<>>}
       /\ Blank(Forms[request.form][c])
       /\ FilaDe(residentes, call.residente_id)[c] = None

\* C9: the error list of post_nuevo_residente and post_editar_residente has
\* one entry for every field whose value is rejected, and is non-empty
\* exactly when validation fails (the response is then the 422 form).
C9_ErrorsFullyEnumerated ==
  request.handler \in Formularios
    => LET kwargs == Kwargs(Forms[request.form])
           invalid == {c \in Range(Campos) : ~validar(c, kwargs[c]).ok}
       IN  /\ {response.errores[i].campo : i \in DOMAIN response.errores}
                = {Capitalize[c] : c \in invalid}
           /\ Len(response.errores) = Cardinality(invalid)
           /\ \A i \in DOMAIN response.errores :
                \E c \in invalid :
                  /\ response.errores[i].campo = Capitalize[c]
                  /\ response.errores[i].mensaje = validar(c, kwargs[c]).msg
           /\ response.errores # <<>> <=> invalid # {}
           /\ response.status = 422 <=> invalid # {}

C9_Witness ==
  /\ request.handler = "post_nuevo_residente"
  /\ response.status = 422
  /\ Len(response.errores) = Len(Campos)

\* C10: a create, update or delete request has one outcome: 500 when the
\* repository call raised (never 404 or 422), 404 when update_residente or
\* delete_residente returned False (never 500), the 303 redirect when the
\* insert returned or the update returned True; 404 and 500 never answer
\* the same request.
C10_OneOutcomePerRequest ==
  request.handler \in Formularios \cup {"delete_residente_endpoint"}
    => /\ response.status \in {200, 303, 404, 422, 500}
       /\ call.raised <=> response.status = 500
       /\ (call.op \in {"update_residente", "delete_residente"} /\ ~call.raised /\ ~call.ret)
            <=> response.status = 404
       /\ (call.op = "insert_residente" /\ ~call.raised) => response = Redirect
       /\ (call.op = "update_residente" /\ ~call.raised /\ call.ret) => response = Redirect
       /\ (call.op = "delete_residente" /\ ~call.raised /\ call.ret) => response.status = 200
       /\ call = NoCall <=> response.status = 422

C10_Witness ==
  /\ request.handler = "post_editar_residente"
  /\ call.raised
  /\ call.fault = "commit"
  /\ response.status = 500
  /\ Existe(residentes, request.residente_id)

\* C11: with d the days from the birth date to today,
\* validar_fecha_nacimiento rejects the date when d < 0, returns it unchanged
\* when d >= 0 and d \div 365 <= 150, and rejects it when d \div 365 > 150.
dias == toordinal(today) - toordinal(fecha)

C11_FechaNacimientoBoundary ==
  validada # <<>>
    => /\ dias < 0 => ~validada[1].ok
       /\ (dias >= 0 /\ dias \div 365 <= 150) => validada[1].ok /\ validada[1].value = fecha
       /\ (dias >= 0 /\ dias \div 365 > 150) => ~validada[1].ok

C11_Witness ==
  /\ dias = 150 * 365
  /\ validada # <<>>
  /\ validada[1].ok
  /\ validada[1].value = fecha

\* C12: a create or update request whose email is longer than 150
\* characters is answered with the 422 form, and no row holds an email of
\* more than 150 characters.
C12_EmailOver150Rejected ==
  /\ (request.handler \in Formularios /\ Len(Forms[request.form].email) > 150)
       => response.status = 422 /\ call = NoCall
  /\ \A r \in residentes : Len(r.email) <= 150

\* C13: a repository call that opened a connection has closed it when it
\* returns or raises, whichever statement faulted; no connection is open
\* outside a call; only insert_residente, update_residente and
\* delete_residente commit; a call executes at most one statement.
C13_ConnectionScopedToCall ==
  \A h \in Hilos :
    /\ hilos[h].pc \in {"idle", "done"} => hilos[h].conn # "open"
    /\ hilos[h].pc = "done"
         => \/ hilos[h].conn = "closed"
            \/ hilos[h].conn = "None" /\ hilos[h].raised /\ hilos[h].fault = "connect"
    /\ hilos[h].commits > 0 => hilos[h].op \in Escrituras
    /\ hilos[h].commits <= 1
    /\ hilos[h].ejecutadas <= 1

C13_Witness ==
  \E h \in Hilos :
    /\ hilos[h].pc = "done"
    /\ hilos[h].raised
    /\ hilos[h].fault = "cursor"
    /\ hilos[h].conn = "closed"
    /\ \E g \in Hilos \ {h} : hilos[g].conn = "open"

\* C14: every stored row equals in full the record of the INSERT or UPDATE
\* committed last on its id, also when two threads update the same id at
\* once on their own connections, and every call that was started
\* completes.
C14_LastWriteWins ==
  /\ [](\A id \in IdsDe(residentes) :
          FilaDe(residentes, id) = Fila(id, Params(modelos[escritor[id]].data)))
  /\ \A h \in Hilos : (hilos[h].pc \notin {"idle", "done"}) ~> (hilos[h].pc = "done")

C14_Witness ==
  \E g \in Hilos, h \in Hilos :
    /\ g # h
    /\ hilos[g].op = "update_residente" /\ hilos[h].op = "update_residente"
    /\ hilos[g].residente_id = hilos[h].residente_id
    /\ hilos[g].form # hilos[h].form
    /\ hilos[g].conn = "open" /\ hilos[h].conn = "open"
    /\ hilos[g].commits = 1 /\ hilos[h].commits = 1
    /\ Existe(residentes, hilos[h].residente_id)
    /\ escritor[hilos[h].residente_id] = hilos[h].form
    /\ FilaDe(residentes, hilos[h].residente_id)
         = Fila(hilos[h].residente_id, Params(modelos[hilos[h].form].data))

\* C15: a write call commits only after its statement executed without a
\* fault; a call that raised at get_connection, conn.cursor or cur.execute
\* has not committed, and the table changes only in a commit.
C15_CommitOnlyAfterExecute ==
  [][ /\ \A h \in Hilos :
           /\ hilos'[h].commits > hilos[h].commits
                => /\ hilos[h].op \in Escrituras
                   /\ hilos[h].ejecutadas = 1
                   /\ ~hilos[h].raised
           /\ (hilos'[h].raised /\ hilos'[h].fault \in {"connect", "cursor", "execute"})
                => hilos'[h].commits = 0
      /\ residentes' # residentes
           => \E h \in Hilos : hilos'[h].commits > hilos[h].commits ]_vars

C15_Witness ==
  \E h \in Hilos :
    /\ hilos[h].pc = "done"
    /\ hilos[h].op = "update_residente"
    /\ hilos[h].raised
    /\ hilos[h].fault = "execute"
    /\ hilos[h].commits = 0
    /\ Existe(residentes, hilos[h].residente_id)
    /\ escritor[hilos[h].residente_id] # hilos[h].form

=============================================================================
